---- MODULE Spec2Model ----
(***************************************************************************)
(* membuf: typed heap buffers.                                             *)
(*                                                                         *)
(*   alloc.rs   raw routines allocate / reallocate / deallocate / empty    *)
(*   lib.rs     MemBuf<T>, the copyable handle (pointer, capacity)         *)
(*   unique.rs  UniqueBuf<T>, the owning handle that frees on drop         *)
(*                                                                         *)
(* The host allocator (std::rt::heap) is the environment: it answers an    *)
(* allocate or reallocate request with null or with an address, and the    *)
(* model lets it choose.  A client drives the handles: it holds NHandles   *)
(* variables, each empty or bound to a MemBuf or a UniqueBuf.              *)
(***************************************************************************)
EXTENDS Integers, Sequences, FiniteSets, TLC

\* ------------------------------------------------------------- bounds
\* width of usize in bits
USizeBits == 4
\* size_of::<T>() of the non-zero-sized element type
TSize == 2
\* largest capacity the client asks for that does not overflow (at least 2)
MaxCap == 2
\* number of addresses the handles can hold at a time
NAddr == 3
\* number of handle variables of the client
NHandles == 2
\* number of distinct element values the client writes
NValues == 1

\* ---------------------------------------------------------- constants
\* a null pointer, the host allocator's failure answer
NULL == 0
\* heap::EMPTY, the address alloc::empty() returns
EMPTY == 1
\* a byte nobody has written yet
Uninit == 0

USizeMax == 2^USizeBits - 1
Addrs == (EMPTY + 1)..(EMPTY + NAddr)
Handles == 1..NHandles
Values == 1..NValues
\* the smallest capacity whose byte size does not fit usize, for elements of
\* es > 0 bytes
OverflowCap(es) == (USizeMax \div es) + 1
\* the capacities a client passes for elements of es bytes: none, one element,
\* the largest the client stores into, and a huge one: the largest usize for a
\* zero-sized type, else the smallest whose byte size overflows
Caps(es) == {0, 1, MaxCap, IF es = 0 THEN USizeMax ELSE OverflowCap(es)}
\* the element sizes the handles are instantiated at: a zero-sized type and one of TSize bytes
ElemSizes == {0, TSize}

Min(a, b) == IF a < b THEN a ELSE b

VARIABLES
    esize,      \* mem::size_of::<T>() of this run's element type
    handles,    \* the client's handle variables: kind, buffer, cap (+ stale)
    heap,       \* the host allocator's regions that a handle points to, by address
    leaked,     \* does the host hold a region that no handle points to?
    fault,      \* "none", or the fault that ended the run
    calls,      \* the host-allocator calls the last operation made
    raws,       \* the raw routines of alloc.rs the last operation invoked
    lastOp      \* the last operation: its name, handle variable, argument

vars == <<esize, handles, heap, leaked, fault, calls, raws, lastOp>>

\* ------------------------------------------------------ element type
\* mem::align_of::<T>()
align_of(es) == IF es = 0 THEN 1 ELSE es

\* ---------------------------------------------------- host allocator
NoRegion == [live |-> FALSE, size |-> 0, bytes |-> <<>>]

\* Is (ptr, old_size) a region the host allocator handed out and still holds?
ValidRegion(hp, ptr, old_size) ==
    /\ ptr \in Addrs
    /\ hp[ptr].live
    /\ hp[ptr].size = old_size

\* The addresses the host can place a new region at: those not in use.  The
\* addresses that no handle mentions are interchangeable, and of them the
\* first stands for all.
Fresh(hp, r) ==
    /\ r \in Addrs
    /\ ~hp[r].live
    /\ LET mentioned(a) == \E h \in Handles : handles[h].buffer = a
       IN  mentioned(r) \/ \A a \in Addrs : (a < r /\ ~hp[a].live) => mentioned(a)

\* May the host answer r to an allocate request?  null, or an address not in use.
CanAllocate(hp, r) == r = NULL \/ Fresh(hp, r)

\* a host that may move a region to any address, also one in use
CanReallocate_inuse(hp, ptr, r) == r = NULL \/ r \in Addrs

\* May the host answer r to a reallocate of ptr?  null, in place, or moved.
CanReallocate(hp, ptr, r) == r = NULL \/ r = ptr \/ Fresh(hp, r)

\* heap::allocate(size, align) answering r
heap_allocate(hp, size, align, r) ==
    IF r = NULL THEN hp
    ELSE [hp EXCEPT ![r] = [live |-> TRUE, size |-> size,
                            bytes |-> [k \in 1..size |-> Uninit]]]

\* heap::reallocate(ptr, old_size, size, align) answering r: the first
\* min(old_size, size) bytes are kept, whether or not the region moves
heap_reallocate(hp, ptr, old_size, size, align, r) ==
    IF r = NULL THEN hp
    ELSE LET kept == Min(old_size, size)
             new  == [live |-> TRUE, size |-> size,
                      bytes |-> [k \in 1..size |->
                                   IF k <= kept THEN hp[ptr].bytes[k] ELSE Uninit]]
         IN  IF r = ptr THEN [hp EXCEPT ![ptr] = new]
             ELSE [hp EXCEPT ![ptr] = NoRegion, ![r] = new]

\* heap::deallocate(ptr, old_size, align)
heap_deallocate(hp, ptr, old_size, align) == [hp EXCEPT ![ptr] = NoRegion]

\* one host-allocator call, as recorded in calls
Call(op, ptr, old_size, size, align, ret) ==
    [op |-> op, ptr |-> ptr, old_size |-> old_size, size |-> size,
     align |-> align, ret |-> ret]

\* ------------------------------------------------------- alloc.rs
\* the result of a routine: the pointer it returns, the heap it leaves, the
\* host calls it made, the fault it ended in, and whether the host answer r
\* it was run with is one the host can give to the request made
Result(ptr, hp, cs, f, ok) ==
    [ptr |-> ptr, heap |-> hp, calls |-> cs, fault |-> f, ok |-> ok]

\* alloc::empty
empty == EMPTY

\* allocation_size without the overflow check: a plain wrapping product
allocation_size_wrapping(es, cap) == (es * cap) % (USizeMax + 1)

\* alloc::allocation_size: checked_mul(..).expect(..); a negative result stands
\* for the None that makes expect panic with "Capacity overflow"
allocation_size(es, cap) ==
    IF es * cap > USizeMax THEN -1 ELSE es * cap

\* alloc::unchecked_allocation_size: the wrapping product
unchecked_allocation_size(es, cap) == (es * cap) % (USizeMax + 1)

\* alloc::allocate without the early return for a zero-sized type
alloc_allocate_nozst(hp, es, cap, r) ==
    LET size == allocation_size(es, cap) IN
    IF size < 0 THEN Result(NULL, hp, <<>>, "overflow", r = NULL)
    ELSE LET c == Call("allocate", NULL, 0, size, align_of(es), r) IN
         IF r = NULL THEN Result(NULL, hp, <<c>>, "oom", TRUE)
         ELSE Result(r, heap_allocate(hp, size, align_of(es), r), <<c>>,
                     "none", CanAllocate(hp, r))

\* alloc::allocate with unchecked_allocation_size in place of allocation_size
alloc_allocate_unchecked(hp, es, cap, r) ==
    IF es = 0 THEN Result(empty, hp, <<>>, "none", r = NULL)
    ELSE LET size == unchecked_allocation_size(es, cap)
             c == Call("allocate", NULL, 0, size, align_of(es), r) IN
         IF r = NULL THEN Result(NULL, hp, <<c>>, "oom", TRUE)
         ELSE Result(r, heap_allocate(hp, size, align_of(es), r), <<c>>,
                     "none", CanAllocate(hp, r))

\* alloc::allocate
alloc_allocate(hp, es, cap, r) ==
    IF es = 0 THEN Result(empty, hp, <<>>, "none", r = NULL)
    ELSE LET size == allocation_size(es, cap) IN
         IF size < 0 THEN Result(NULL, hp, <<>>, "overflow", r = NULL)
         ELSE LET c == Call("allocate", NULL, 0, size, align_of(es), r) IN
              IF r = NULL THEN Result(NULL, hp, <<c>>, "oom", TRUE)
              ELSE Result(r, heap_allocate(hp, size, align_of(es), r), <<c>>,
                          "none", CanAllocate(hp, r))

\* alloc::reallocate without the null check: a null answer is returned
alloc_reallocate_nonull(hp, es, ptr, old_cap, new_cap, r) ==
    IF es = 0 THEN Result(empty, hp, <<>>, "none", r = NULL)
    ELSE LET old_size == unchecked_allocation_size(es, old_cap)
             new_size == allocation_size(es, new_cap) IN
         IF new_size < 0 THEN Result(NULL, hp, <<>>, "overflow", r = NULL)
         ELSE LET c == Call("reallocate", ptr, old_size, new_size, align_of(es), r) IN
              IF ~ValidRegion(hp, ptr, old_size) THEN Result(NULL, hp, <<c>>, "ub", r = NULL)
              ELSE Result(r, heap_reallocate(hp, ptr, old_size, new_size, align_of(es), r),
                          <<c>>, "none", CanReallocate(hp, ptr, r))

\* alloc::reallocate
alloc_reallocate(hp, es, ptr, old_cap, new_cap, r) ==
    IF es = 0 THEN Result(empty, hp, <<>>, "none", r = NULL)
    ELSE LET old_size == unchecked_allocation_size(es, old_cap)
             new_size == allocation_size(es, new_cap) IN
         IF new_size < 0 THEN Result(NULL, hp, <<>>, "overflow", r = NULL)
         ELSE LET c == Call("reallocate", ptr, old_size, new_size, align_of(es), r) IN
              IF ~ValidRegion(hp, ptr, old_size) THEN Result(NULL, hp, <<c>>, "ub", r = NULL)
              ELSE IF r = NULL THEN Result(NULL, hp, <<c>>, "oom", TRUE)
              ELSE Result(r, heap_reallocate(hp, ptr, old_size, new_size, align_of(es), r),
                          <<c>>, "none", CanReallocate(hp, ptr, r))

\* alloc::deallocate
alloc_deallocate(hp, es, ptr, cap) ==
    IF es = 0 THEN Result(NULL, hp, <<>>, "none", TRUE)
    ELSE LET old_size == unchecked_allocation_size(es, cap)
             c == Call("deallocate", ptr, old_size, 0, align_of(es), NULL) IN
         IF ~ValidRegion(hp, ptr, old_size) THEN Result(NULL, hp, <<c>>, "ub", TRUE)
         ELSE Result(NULL, heap_deallocate(hp, ptr, old_size, align_of(es)), <<c>>, "none", TRUE)

\* ---------------------------------------------------------- lib.rs
\* a MemBuf value
MemBuf(buffer, cap) == [buffer |-> buffer, cap |-> cap]

\* the result of a MemBuf operation: the MemBuf it returns or leaves in *self,
\* and the raw routines it invoked (none, until Via adds one)
MResult(self, hp, cs, f, ok) ==
    [self |-> self, heap |-> hp, calls |-> cs, fault |-> f, ok |-> ok, raw |-> <<>>]

\* an invocation of a raw routine, with the capacities passed to it:
\* alloc::allocate(cap), alloc::reallocate(_, old_cap, cap) or
\* alloc::deallocate(_, old_cap)
Raw(fn, old_cap, cap) == [fn |-> fn, old_cap |-> old_cap, cap |-> cap]

\* the result m of an operation that got it by invoking the raw routine raw
Via(raw, m) == [m EXCEPT !.raw = <<raw>>]

\* MemBuf::new
MemBuf_new == MemBuf(empty, 0)

\* MemBuf::allocate without the cap == 0 case
MemBuf_allocate_nozero(hp, es, cap, r) ==
    LET a == alloc_allocate(hp, es, cap, r) IN
    Via(Raw("allocate", 0, cap),
        MResult(MemBuf(a.ptr, cap), a.heap, a.calls, a.fault, a.ok))

\* MemBuf::allocate
MemBuf_allocate(hp, es, cap, r) ==
    IF cap = 0 THEN MResult(MemBuf_new, hp, <<>>, "none", r = NULL)
    ELSE LET a == alloc_allocate(hp, es, cap, r) IN
         Via(Raw("allocate", 0, cap),
             MResult(MemBuf(a.ptr, cap), a.heap, a.calls, a.fault, a.ok))

\* MemBuf::reallocate without the final self.cap = cap: the capacity stays
\* at the 0 it was replaced by
MemBuf_reallocate_nocap(self, hp, es, cap, r) ==
    IF self.cap = 0 \/ cap = 0
    THEN LET m == MemBuf_allocate(hp, es, cap, r) IN
         [m EXCEPT !.self = IF m.fault = "none" THEN m.self ELSE self]
    ELSE LET a == alloc_reallocate(hp, es, self.buffer, self.cap, cap, r) IN
         Via(Raw("reallocate", self.cap, cap),
             MResult(IF a.fault = "none" THEN MemBuf(a.ptr, 0) ELSE MemBuf(empty, 0),
                     a.heap, a.calls, a.fault, a.ok))

\* MemBuf::reallocate as *self = MemBuf::allocate(cap) in every case
MemBuf_reallocate_fresh(self, hp, es, cap, r) ==
    LET m == MemBuf_allocate(hp, es, cap, r) IN
    [m EXCEPT !.self = IF m.fault = "none" THEN m.self ELSE self]

\* MemBuf::reallocate without the two mem::replace: a fault leaves *self as
\* it was
MemBuf_reallocate_noreplace(self, hp, es, cap, r) ==
    IF self.cap = 0 \/ cap = 0
    THEN LET m == MemBuf_allocate(hp, es, cap, r) IN
         [m EXCEPT !.self = IF m.fault = "none" THEN m.self ELSE self]
    ELSE LET a == alloc_reallocate(hp, es, self.buffer, self.cap, cap, r) IN
         Via(Raw("reallocate", self.cap, cap),
             MResult(IF a.fault = "none" THEN MemBuf(a.ptr, cap) ELSE self,
                     a.heap, a.calls, a.fault, a.ok))

\* MemBuf::reallocate without self.buffer = alloc::reallocate(..): the pointer
\* stays the empty() it was replaced by
MemBuf_reallocate_nobuffer(self, hp, es, cap, r) ==
    IF self.cap = 0 \/ cap = 0
    THEN LET m == MemBuf_allocate(hp, es, cap, r) IN
         [m EXCEPT !.self = IF m.fault = "none" THEN m.self ELSE self]
    ELSE LET a == alloc_reallocate(hp, es, self.buffer, self.cap, cap, r) IN
         Via(Raw("reallocate", self.cap, cap),
             MResult(IF a.fault = "none" THEN MemBuf(empty, cap) ELSE MemBuf(empty, 0),
                     a.heap, a.calls, a.fault, a.ok))

\* MemBuf::reallocate that routes only self.cap == 0 to MemBuf::allocate
MemBuf_reallocate_tozero(self, hp, es, cap, r) ==
    IF self.cap = 0
    THEN LET m == MemBuf_allocate(hp, es, cap, r) IN
         [m EXCEPT !.self = IF m.fault = "none" THEN m.self ELSE self]
    ELSE LET a == alloc_reallocate(hp, es, self.buffer, self.cap, cap, r) IN
         Via(Raw("reallocate", self.cap, cap),
             MResult(IF a.fault = "none" THEN MemBuf(a.ptr, cap) ELSE MemBuf(empty, 0),
                     a.heap, a.calls, a.fault, a.ok))

\* MemBuf::reallocate
MemBuf_reallocate(self, hp, es, cap, r) ==
    IF self.cap = 0 \/ cap = 0
    THEN \* *self = MemBuf::allocate(cap): a fault leaves *self as it was
         LET m == MemBuf_allocate(hp, es, cap, r) IN
         [m EXCEPT !.self = IF m.fault = "none" THEN m.self ELSE self]
    ELSE \* cap and buffer are replaced by 0 and empty() before the call
         LET a == alloc_reallocate(hp, es, self.buffer, self.cap, cap, r) IN
         Via(Raw("reallocate", self.cap, cap),
             MResult(IF a.fault = "none" THEN MemBuf(a.ptr, cap) ELSE MemBuf(empty, 0),
                     a.heap, a.calls, a.fault, a.ok))

\* MemBuf::capacity
MemBuf_capacity(self) == self.cap

\* MemBuf::deallocate without the cap == 0 case
MemBuf_deallocate_nozero(self, hp, es) ==
    LET a == alloc_deallocate(hp, es, self.buffer, self.cap) IN
    Via(Raw("deallocate", self.cap, 0),
        MResult(self, a.heap, a.calls, a.fault, a.ok))

\* MemBuf::deallocate
MemBuf_deallocate(self, hp, es) ==
    IF self.cap = 0 THEN MResult(self, hp, <<>>, "none", TRUE)
    ELSE LET a == alloc_deallocate(hp, es, self.buffer, self.cap) IN
         Via(Raw("deallocate", self.cap, 0),
             MResult(self, a.heap, a.calls, a.fault, a.ok))

\* ------------------------------------------------------- unique.rs
\* UniqueBuf::new
UniqueBuf_new == MemBuf_new

\* UniqueBuf::allocate
UniqueBuf_allocate(hp, es, cap, r) == MemBuf_allocate(hp, es, cap, r)

\* UniqueBuf::reallocate that reallocates a MemBuf::new() in place of inner
UniqueBuf_reallocate_new(inner, hp, es, cap, r) == MemBuf_reallocate(MemBuf_new, hp, es, cap, r)

\* UniqueBuf::reallocate
UniqueBuf_reallocate(inner, hp, es, cap, r) == MemBuf_reallocate(inner, hp, es, cap, r)

\* UniqueBuf::capacity
UniqueBuf_capacity(inner) == MemBuf_capacity(inner)

\* Drop for UniqueBuf
UniqueBuf_drop(inner, hp, es) == MemBuf_deallocate(inner, hp, es)

\* ------------------------------------------------------------ client
\* A handle variable of the client.  kind is "none" (unbound), "mem" or
\* "unique"; buffer and cap are the MemBuf's fields.  The other fields are
\* history: stale ("freed" or "moved" once the region was freed or moved
\* through another copy, else "no"), lost (for a UniqueBuf: has an operation
\* through this handle left a region with no handle pointing to it?) and wrote
\* (the values written through the handle that the capacities since have
\* kept).
Handle(kind, m, stale, lost, wrote) ==
    [kind |-> kind, buffer |-> m.buffer, cap |-> m.cap, stale |-> stale,
     lost |-> kind = "unique" /\ lost, wrote |-> wrote]

NoHandle == Handle("none", MemBuf_new, "no", FALSE, <<>>)

Inner(hd) == MemBuf(hd.buffer, hd.cap)

\* an operation: its name, the handle variable it went through, the capacity
\* it was passed (for a copy: the variable copied) and the capacity the handle
\* had before it
Op(op, h, cap, old) == [op |-> op, h |-> h, cap |-> cap, old |-> old]

\* the regions of hp that none of the handles hs points to
Unreachable(hp, hs) ==
    {a \in Addrs : hp[a].live /\ \A g \in Handles :
        ~(hs[g].kind # "none" /\ hs[g].cap > 0 /\ hs[g].buffer = a)}

\* does one of the calls cs pass the handle's own pointer to the host?
UsesPointer(cs) == \E k \in DOMAIN cs : cs[k].op \in {"reallocate", "deallocate"}

\* the regions that hp holds and hp2 does not
Released(hp, hp2) == {a \in Addrs : hp[a].live /\ ~hp2[a].live}

\* the values written so far that a buffer of cap elements still holds
Keep(wrote, cap) ==
    [i \in 1..(IF cap > MaxCap THEN 0 ELSE cap) |->
        IF i <= Len(wrote) THEN wrote[i] ELSE Uninit]

\* ptr::read(buffer.offset(i)): the element at offset i, or -1 for bytes that
\* are not one element value
ReadAt(hp, es, ptr, i) ==
    LET b == hp[ptr].bytes IN
    IF \A k \in 1..es : b[i * es + k] = b[i * es + 1] THEN b[i * es + 1] ELSE -1

\* ptr::write(buffer.offset(i), v)
WriteAt(hp, es, ptr, i, v) ==
    [hp EXCEPT ![ptr].bytes =
        [k \in DOMAIN hp[ptr].bytes |->
            IF i * es < k /\ k <= (i + 1) * es THEN v ELSE hp[ptr].bytes[k]]]

\* The effect of an operation through handle variable h whose result is o,
\* leaving nh in h.  A call through a stale handle passes the host a pointer
\* it no longer owns: undefined behaviour, as is a call the host finds invalid.
\* The run then stops with fault "ub" and the model follows it no further.
\* A region that no handle points to any more stays with the host for the rest
\* of the run and nothing can name it: the model records it in leaked (and in
\* the lost of a UniqueBuf) and lets its address stand for a new one.
Commit(h, o, nh, op) ==
    LET ub == o.fault = "ub" \/ (handles[h].stale # "no" /\ UsesPointer(o.calls))
        gone == Released(heap, o.heap)
        hs == [g \in Handles |->
                  IF g = h THEN nh
                  ELSE IF handles[g].kind # "none" /\ handles[g].cap > 0
                          /\ handles[g].buffer \in gone
                       THEN [handles[g] EXCEPT !.stale =
                                IF o.calls[1].op = "deallocate" THEN "freed" ELSE "moved"]
                       ELSE handles[g]]
        orphans == Unreachable(o.heap, hs)
    IN  /\ o.ok
        /\ calls' = o.calls
        /\ raws' = o.raw
        /\ lastOp' = op
        /\ esize' = esize
        /\ IF ub
           THEN /\ fault' = "ub"
                /\ UNCHANGED <<handles, heap, leaked>>
           ELSE /\ fault' = o.fault
                /\ heap' = [a \in Addrs |-> IF a \in orphans THEN NoRegion ELSE o.heap[a]]
                /\ leaked' = (leaked \/ orphans # {})
                /\ handles' = [hs EXCEPT ![h].lost =
                                  nh.kind = "unique" /\ (nh.lost \/ orphans # {})]

\* The client binds its handle variables in order: a new handle goes into the
\* first unbound variable (the variables are interchangeable).
FirstFree(h) ==
    /\ handles[h].kind = "none"
    /\ \A g \in Handles : g < h => handles[g].kind # "none"

Init ==
    /\ esize \in ElemSizes
    /\ handles = [h \in Handles |-> NoHandle]
    /\ heap = [a \in Addrs |-> NoRegion]
    /\ leaked = FALSE
    /\ fault = "none"
    /\ calls = <<>>
    /\ raws = <<>>
    /\ lastOp = Op("init", 0, 0, 0)

\* let b = MemBuf::new() / UniqueBuf::new()
New(h, kind) ==
    /\ fault = "none"
    /\ FirstFree(h)
    /\ LET m == IF kind = "mem" THEN MemBuf_new ELSE UniqueBuf_new
           o == MResult(m, heap, <<>>, "none", TRUE)
       IN  Commit(h, o, Handle(kind, m, "no", FALSE, <<>>), Op("new", h, 0, 0))

\* let b = MemBuf::allocate(c) / UniqueBuf::allocate(c), the host answering r
Allocate(h, kind, c, r) ==
    /\ fault = "none"
    /\ FirstFree(h)
    /\ LET o == IF kind = "mem" THEN MemBuf_allocate(heap, esize, c, r)
                ELSE UniqueBuf_allocate(heap, esize, c, r)
           nh == IF o.fault = "none"
                 THEN Handle(kind, o.self, "no", FALSE, Keep(<<>>, c))
                 ELSE NoHandle
       IN  Commit(h, o, nh, Op("allocate", h, c, 0))

\* b.reallocate(n), the host answering r
Reallocate(h, n, r) ==
    /\ fault = "none"
    /\ handles[h].kind # "none"
    /\ LET hd == handles[h]
           o == IF hd.kind = "mem" THEN MemBuf_reallocate(Inner(hd), heap, esize, n, r)
                ELSE UniqueBuf_reallocate(Inner(hd), heap, esize, n, r)
           kept == IF hd.cap > 0 /\ n > 0 /\ o.fault = "none" THEN hd.wrote ELSE <<>>
           nh == Handle(hd.kind, o.self, "no", hd.lost, Keep(kept, o.self.cap))
       IN  Commit(h, o, nh, Op("reallocate", h, n, hd.cap))

\* b.deallocate() on a MemBuf, which consumes b
Deallocate(h) ==
    /\ fault = "none"
    /\ handles[h].kind = "mem"
    /\ Commit(h, MemBuf_deallocate(Inner(handles[h]), heap, esize), NoHandle,
              Op("deallocate", h, 0, handles[h].cap))

\* a UniqueBuf goes out of scope, also while a panic unwinds
Drop(h) ==
    /\ fault \in {"none", "overflow"}
    /\ handles[h].kind = "unique"
    /\ LET o == UniqueBuf_drop(Inner(handles[h]), heap, esize)
       IN  Commit(h, [o EXCEPT !.fault = IF o.fault = "none" THEN fault ELSE o.fault],
                  NoHandle, Op("drop", h, 0, handles[h].cap))

\* a Clone that hands out an empty MemBuf instead of *self
Copy_empty(h, g) ==
    /\ fault = "none"
    /\ handles[h].kind = "mem"
    /\ handles[h].cap > 0
    /\ FirstFree(g)
    /\ handles' = [handles EXCEPT ![g] = Handle("mem", MemBuf_new, "no", FALSE, <<>>)]
    /\ calls' = <<>>
    /\ raws' = <<>>
    /\ lastOp' = Op("copy", g, h, handles[h].cap)
    /\ UNCHANGED <<esize, heap, leaked, fault>>

\* let c = b, the derived Clone / Copy of MemBuf.  A copy of an empty MemBuf
\* is a MemBuf::new() in all but name, so the client copies the others.
Copy(h, g) ==
    /\ fault = "none"
    /\ handles[h].kind = "mem"
    /\ handles[h].cap > 0
    /\ FirstFree(g)
    /\ handles' = [handles EXCEPT ![g] = handles[h]]
    /\ calls' = <<>>
    /\ raws' = <<>>
    /\ lastOp' = Op("copy", g, h, handles[h].cap)
    /\ UNCHANGED <<esize, heap, leaked, fault>>

\* ptr::write(b.offset(i), v) by the client, through a handle whose region is valid
Write(h, i, v) ==
    /\ fault = "none"
    /\ esize > 0
    /\ handles[h].kind # "none"
    /\ handles[h].stale = "no"
    /\ i < handles[h].cap
    /\ ValidRegion(heap, handles[h].buffer, esize * handles[h].cap)
    /\ heap' = WriteAt(heap, esize, handles[h].buffer, i, v)
    /\ handles' = [handles EXCEPT ![h].wrote[i + 1] = v]
    /\ calls' = <<>>
    /\ raws' = <<>>
    /\ lastOp' = Op("write", h, i, handles[h].cap)
    /\ UNCHANGED <<esize, leaked, fault>>

Kinds == {"mem", "unique"}
Answers == {NULL} \cup Addrs

\* creating, resizing and releasing handles
NextCore ==
    \/ \E h \in Handles, k \in Kinds : New(h, k)
    \/ \E h \in Handles, k \in Kinds, c \in Caps(esize), r \in Answers : Allocate(h, k, c, r)
    \/ \E h \in Handles, n \in Caps(esize), r \in Answers : Reallocate(h, n, r)
    \/ \E h \in Handles : Deallocate(h)
    \/ \E h \in Handles : Drop(h)

Next ==
    \/ NextCore
    \/ \E h, g \in Handles : Copy(h, g)

Spec == Init /\ [][Next]_vars

\* A client that writes elements into its buffers.  It copies no MemBuf, so
\* that each buffer has one handle.
InitW == Init /\ esize = TSize

NextW ==
    \/ NextCore
    \/ \E h \in Handles, i \in 0..(MaxCap - 1), v \in Values : Write(h, i, v)

SpecW == InitW /\ [][NextW]_vars

\* ------------------------------------------------------------ claims
Bound(h) == handles[h].kind # "none"

\* the handle the last operation went through
Last == handles[lastOp.h]

\* the one host call heap::deallocate(ptr, size, align)
FreeCall(ptr, size, align) == Call("deallocate", ptr, size, 0, align, NULL)

\* C1: in a fault-free run, when a UniqueBuf over a non-zero-sized type is
\* dropped, every region the host handed to its operations has been given
\* back (none was left behind by an earlier operation, none is by the drop),
\* and the drop frees nothing the host does not hold.
C1_UniqueReturnsEveryRegion ==
    [][(/\ lastOp'.op = "drop"
        /\ esize > 0
        /\ fault = "none")
       => /\ fault' = "none"
          /\ ~handles[lastOp'.h].lost
          /\ leaked' = leaked]_vars

\* C2: a drop of a UniqueBuf, or a deallocate of a MemBuf, of capacity c > 0
\* over a non-zero-sized type makes exactly one host call, the free of the
\* stored pointer with size esize * c and the element alignment; at capacity
\* 0 it makes no host call.
C2_DropFreesOnce ==
    [][(lastOp'.op \in {"drop", "deallocate"})
       => LET hd == handles[lastOp'.h] IN
          /\ (hd.cap > 0 /\ esize > 0)
                => calls' = <<FreeCall(hd.buffer, esize * hd.cap, align_of(esize))>>
          /\ hd.cap = 0 => calls' = <<>>]_vars

C2_Witness ==
    /\ lastOp.op = "drop"
    /\ lastOp.old = MaxCap
    /\ esize > 0
    /\ fault = "none"
    /\ Len(calls) = 1
    /\ calls[1].op = "deallocate"

\* C3: when allocate(c) returns, capacity() is c; for c = 0 the pointer is the
\* empty sentinel and the host was not called, as after new().
C3_AllocateCapacity ==
    /\ (lastOp.op = "allocate" /\ fault = "none")
          => /\ Bound(lastOp.h)
             /\ MemBuf_capacity(Inner(Last)) = lastOp.cap
             /\ lastOp.cap = 0 => (Last.buffer = EMPTY /\ calls = <<>>)
    /\ lastOp.op = "new"
          => /\ Bound(lastOp.h)
             /\ MemBuf_capacity(Inner(Last)) = 0
             /\ Last.buffer = EMPTY
             /\ calls = <<>>

C3_Witness ==
    /\ lastOp.op = "allocate"
    /\ lastOp.cap = 0
    /\ fault = "none"
    /\ esize > 0
    /\ Last.kind = "unique"
    /\ \E g \in Handles : Bound(g) /\ handles[g].cap = MaxCap /\ handles[g].buffer \in Addrs

\* C4: when reallocate(n) returns, capacity() is n, and for n = 0 the pointer
\* is the empty sentinel, whatever the capacity before.
C4_ReallocateCapacity ==
    (lastOp.op = "reallocate" /\ fault = "none")
       => /\ MemBuf_capacity(Inner(Last)) = lastOp.cap
          /\ lastOp.cap = 0 => Last.buffer = EMPTY

\* an Allocated handle was reallocated to Empty
C4_Witness ==
    /\ lastOp.op = "reallocate"
    /\ fault = "none"
    /\ esize > 0
    /\ lastOp.old > 0
    /\ lastOp.cap = 0
    /\ Last.cap = 0

\* C6: for a non-zero-sized type, allocate(c) and reallocate(c), on an empty
\* handle or not, with esize * c >= 2^w end in the capacity-overflow fault
\* without a host call.
C6_OverflowBeforeHost ==
    (/\ lastOp.op \in {"allocate", "reallocate"}
     /\ esize > 0
     /\ esize * lastOp.cap > USizeMax)
       => /\ fault = "overflow"
          /\ calls = <<>>

C6_Witness ==
    /\ lastOp.op = "reallocate"
    /\ lastOp.old > 0
    /\ esize * lastOp.cap > USizeMax
    /\ fault = "overflow"

\* C7: for a zero-sized type no operation calls the host or faults, and every
\* handle holds the empty sentinel and the capacity it was asked for.
C7_ZeroSizedNeverAllocates ==
    esize = 0
       => /\ calls = <<>>
          /\ fault = "none"
          /\ \A a \in Addrs : ~heap[a].live
          /\ \A h \in Handles : handles[h].buffer = EMPTY
          /\ lastOp.op \in {"allocate", "reallocate"}
                => (Bound(lastOp.h) /\ Last.cap = lastOp.cap)

C7_Witness ==
    /\ esize = 0
    /\ lastOp.op = "reallocate"
    /\ lastOp.old = USizeMax
    /\ lastOp.cap = MaxCap
    /\ Last.cap = MaxCap

\* C9: an operation makes at most one host call; when the host answers null
\* the operation ends in the out-of-memory fault, and no handle ever holds the
\* null pointer.
C9_NullIsFatal ==
    /\ Len(calls) <= 1
    /\ \A h \in Handles : handles[h].buffer # NULL
    /\ \A k \in DOMAIN calls :
          (calls[k].op \in {"allocate", "reallocate"} /\ calls[k].ret = NULL /\ fault # "ub")
             => fault = "oom"
    /\ fault = "oom"
          => /\ Len(calls) = 1
             /\ calls[1].ret = NULL
             /\ lastOp.op = "allocate" => ~Bound(lastOp.h)
             /\ lastOp.op = "reallocate" => Last.buffer = EMPTY

C9_Witness ==
    /\ fault = "oom"
    /\ lastOp.op = "reallocate"
    /\ lastOp.old > 0
    /\ calls[1].op = "reallocate"

\* C10: reallocate(0) at capacity a > 0 over a non-zero-sized type frees the
\* old region (one host free of size esize * a) and leaves the handle Empty;
\* reallocate(n), n > 0, on an Empty handle makes one host allocate call.
C10_ReallocateToEmptyFrees ==
    (lastOp.op = "reallocate" /\ esize > 0 /\ fault # "ub")
       => /\ (lastOp.old > 0 /\ lastOp.cap = 0)
                => /\ Len(calls) = 1
                   /\ calls[1].op = "deallocate"
                   /\ calls[1].old_size = esize * lastOp.old
                   /\ Last.cap = 0
                   /\ Last.buffer = EMPTY
          /\ (lastOp.old = 0 /\ lastOp.cap > 0 /\ fault # "overflow")
                => /\ Len(calls) = 1
                   /\ calls[1].op = "allocate"

\* C5: with a host whose reallocate keeps the first min(old_size, new_size)
\* bytes, a value written at offset i is read back unchanged as long as every
\* capacity since the write stayed above i, also after the region has moved.
C5_WrittenValuesSurvive ==
    \A h \in Handles :
        (Bound(h) /\ handles[h].cap > 0)
           => \A i \in DOMAIN handles[h].wrote :
                 handles[h].wrote[i] # Uninit
                    => ReadAt(heap, esize, handles[h].buffer, i - 1) = handles[h].wrote[i]

\* a written buffer was reallocated to another capacity and moved, while
\* another handle held a region of its own
C5_Witness ==
    /\ lastOp.op = "reallocate"
    /\ fault = "none"
    /\ lastOp.old # lastOp.cap
    /\ Len(calls) = 1
    /\ calls[1].op = "reallocate"
    /\ calls[1].ret # calls[1].ptr
    /\ Last.wrote[1] # Uninit
    /\ \E g \in Handles \ {lastOp.h} : Bound(g) /\ handles[g].cap > 0

\* C8: a copy of a MemBuf holds the pointer and capacity of the original; a
\* reallocate or deallocate through one MemBuf of capacity > 0 over a
\* non-zero-sized type leaves the pointer and capacity of every other handle
\* as they were, so that a copy is left with a region the host no longer
\* holds whenever the host freed or moved it.
C8_CopiesAreInvalidated ==
    [][/\ lastOp'.op = "copy"
            => /\ Inner(handles'[lastOp'.h]) = Inner(handles[lastOp'.cap])
               /\ Inner(handles'[lastOp'.cap]) = Inner(handles[lastOp'.cap])
       /\ (/\ lastOp'.op \in {"reallocate", "deallocate"}
           /\ handles[lastOp'.h].kind = "mem"
           /\ handles[lastOp'.h].cap > 0
           /\ esize > 0)
            => \A g \in Handles \ {lastOp'.h} :
                  /\ Inner(handles'[g]) = Inner(handles[g])
                  /\ (/\ Bound(g)
                      /\ handles[g].cap > 0
                      /\ handles[g].buffer = handles[lastOp'.h].buffer
                      /\ handles[g].buffer \in Released(heap, heap'))
                        => /\ ~heap'[handles'[g].buffer].live
                           /\ handles'[g].stale # "no"]_vars

\* the second deallocate of a region, through the copy of a MemBuf that was
\* deallocated: the host is asked to free a region it no longer holds
C8_Witness ==
    /\ lastOp.op = "deallocate"
    /\ esize > 0
    /\ Last.kind = "mem"
    /\ Last.stale = "freed"
    /\ calls = <<FreeCall(Last.buffer, esize * Last.cap, align_of(esize))>>
    /\ ~heap[Last.buffer].live
    /\ fault = "ub"

\* C11: a reallocate that ends in the capacity-overflow or the out-of-memory
\* fault leaves the handle with capacity 0 and the empty sentinel; the drop of
\* that UniqueBuf while the overflow unwinds makes no host call and leaves the
\* host's regions as they are.
C11_FaultLeavesEmpty ==
    [][/\ (lastOp'.op = "reallocate" /\ fault' \in {"overflow", "oom"})
            => /\ handles'[lastOp'.h].cap = 0
               /\ handles'[lastOp'.h].buffer = EMPTY
       /\ (/\ lastOp.op = "reallocate"
           /\ fault = "overflow"
           /\ lastOp'.op = "drop"
           /\ lastOp'.h = lastOp.h)
            => /\ calls' = <<>>
               /\ fault' = "overflow"
               /\ heap' = heap]_vars

\* a UniqueBuf was dropped at capacity 0 while an overflow unwinds, next to
\* MemBufs of capacity > 0: the overflow was that of a reallocate of the
\* UniqueBuf, which left its region behind
C11_Witness ==
    /\ lastOp.op = "drop"
    /\ fault = "overflow"
    /\ esize > 0
    /\ lastOp.old = 0
    /\ calls = <<>>
    /\ leaked
    /\ \A g \in Handles \ {lastOp.h} : handles[g].kind = "mem" /\ handles[g].cap > 0

\* C12: for a handle over a non-zero-sized type that was never copied, after
\* every operation: capacity 0 implies the pointer is the empty sentinel, and
\* capacity > 0 implies the pointer is a region the host holds, of size
\* esize * capacity.
C12_PointerMatchesCapacity ==
    \A h \in Handles :
        (Bound(h) /\ esize > 0)
           => /\ handles[h].cap = 0 => handles[h].buffer = EMPTY
              /\ handles[h].cap > 0
                    => ValidRegion(heap, handles[h].buffer, esize * handles[h].cap)

\* a reallocate changed the capacity of an Allocated handle and moved its
\* region, while another handle was Empty
C12_Witness ==
    /\ lastOp.op = "reallocate"
    /\ fault = "none"
    /\ lastOp.old > 0
    /\ lastOp.cap > 0
    /\ lastOp.old # lastOp.cap
    /\ calls[1].ret # calls[1].ptr
    /\ heap[Last.buffer].size = esize * lastOp.cap
    /\ \E g \in Handles \ {lastOp.h} : Bound(g) /\ handles[g].cap = 0

\* C13: the raw routines alloc::allocate, alloc::reallocate and
\* alloc::deallocate are invoked with capacities above 0 only: an allocate or
\* reallocate to capacity 0 invokes none of them and leaves the empty
\* sentinel, a reallocate from capacity 0 invokes alloc::allocate, and a
\* deallocate or drop at capacity 0 invokes none.
C13_RawCapacitiesPositive ==
    /\ \A k \in DOMAIN raws :
          /\ raws[k].fn \in {"allocate", "reallocate"} => raws[k].cap > 0
          /\ raws[k].fn \in {"reallocate", "deallocate"} => raws[k].old_cap > 0
    /\ (lastOp.op \in {"allocate", "reallocate"} /\ lastOp.cap = 0)
          => /\ raws = <<>>
             /\ Last.buffer = EMPTY
    /\ (lastOp.op = "reallocate" /\ lastOp.old = 0 /\ lastOp.cap > 0)
          => raws = <<Raw("allocate", 0, lastOp.cap)>>
    /\ (lastOp.op \in {"deallocate", "drop"} /\ lastOp.old = 0) => raws = <<>>

\* an Empty handle was reallocated to MaxCap elements through alloc::allocate
C13_Witness ==
    /\ lastOp.op = "reallocate"
    /\ fault = "none"
    /\ esize > 0
    /\ lastOp.old = 0
    /\ lastOp.cap = MaxCap
    /\ raws = <<Raw("allocate", 0, MaxCap)>>
    /\ Len(calls) = 1

\* C14: over a non-zero-sized type, with no handle copied, every capacity c
\* that alloc::reallocate (as old capacity) or alloc::deallocate passes to
\* unchecked_allocation_size has esize * c < 2^w: the product does not wrap,
\* and it is the size the host holds the region at, which is the old size
\* the host is given.
C14_UncheckedSizeExact ==
    [][esize > 0
       => \A k \in DOMAIN raws' :
             raws'[k].fn \in {"reallocate", "deallocate"}
                => LET c == raws'[k].old_cap IN
                   /\ esize * c <= USizeMax
                   /\ unchecked_allocation_size(esize, c) = esize * c
                   /\ fault' # "ub"
                   /\ calls' # <<>>
                         => /\ calls'[1].old_size = esize * c
                            /\ heap[calls'[1].ptr].live
                            /\ heap[calls'[1].ptr].size = esize * c]_vars

\* a handle of MaxCap elements was reallocated to one element
C14_Witness ==
    /\ lastOp.op = "reallocate"
    /\ fault = "none"
    /\ esize > 0
    /\ raws = <<Raw("reallocate", MaxCap, 1)>>
    /\ Len(calls) = 1
    /\ calls[1].old_size = esize * MaxCap
    /\ calls[1].size = esize

\* does the step leave in handle variable h what the MemBuf operation with
\* result m leaves, with the same host calls, raw routines and fault?
SameAsMemBuf(h, m, bound) ==
    /\ m.ok
    /\ calls' = m.calls
    /\ raws' = m.raw
    /\ fault' = (IF m.fault = "none" THEN fault ELSE m.fault)
    /\ bound => Inner(handles'[h]) = m.self
    /\ ~bound => handles'[h].kind = "none"

\* C15: every new, allocate, reallocate and capacity of a UniqueBuf gives the
\* capacity, the pointer, the host calls and the fault that the MemBuf
\* operation gives on the same pointer and capacity, heap and host answer;
\* the drop of a UniqueBuf is the deallocate of its MemBuf.
C15_UniqueForwardsToMemBuf ==
    [][LET h == lastOp'.h
           n == lastOp'.cap
       IN  /\ \A g \in Handles :
                 handles[g].kind = "unique"
                    => UniqueBuf_capacity(Inner(handles[g])) = MemBuf_capacity(Inner(handles[g]))
           /\ (lastOp'.op = "new" /\ handles'[h].kind = "unique")
                 => Inner(handles'[h]) = MemBuf_new /\ calls' = <<>>
           /\ (lastOp'.op = "allocate" /\ handles'[h].kind # "mem")
                 => \E r \in Answers :
                       SameAsMemBuf(h, MemBuf_allocate(heap, esize, n, r), fault' = "none")
           /\ (lastOp'.op = "reallocate" /\ handles[h].kind = "unique")
                 => \E r \in Answers :
                       SameAsMemBuf(h, MemBuf_reallocate(Inner(handles[h]), heap, esize, n, r), TRUE)
           /\ lastOp'.op = "drop"
                 => SameAsMemBuf(h, MemBuf_deallocate(Inner(handles[h]), heap, esize), FALSE)]_vars

\* a UniqueBuf of capacity > 0 was reallocated to another capacity > 0 with
\* one host call, next to a MemBuf that holds a region
C15_Witness ==
    /\ lastOp.op = "reallocate"
    /\ fault = "none"
    /\ esize > 0
    /\ Last.kind = "unique"
    /\ lastOp.old > 0
    /\ lastOp.cap > 0
    /\ raws = <<Raw("reallocate", lastOp.old, lastOp.cap)>>
    /\ Len(calls) = 1
    /\ \E g \in Handles : handles[g].kind = "mem" /\ handles[g].cap > 0

\* C16: with no handle copied, a step through one UniqueBuf (allocate,
\* reallocate, drop, or a write into its buffer) leaves the pointer and the
\* capacity of every other UniqueBuf as they were, and the region of the
\* other, if it has one, live with the size and the contents it had.
C16_OtherUniqueUntouched ==
    [][\A g \in Handles \ {lastOp'.h} :
          (/\ handles[g].kind = "unique"
           /\ lastOp'.h \in Handles
           /\ handles[lastOp'.h].kind # "mem"
           /\ handles'[lastOp'.h].kind # "mem")
             => /\ handles'[g].kind = "unique"
                /\ Inner(handles'[g]) = Inner(handles[g])
                /\ handles'[g].wrote = handles[g].wrote
                /\ (handles[g].cap > 0 /\ esize > 0)
                      => /\ heap'[handles[g].buffer].live
                         /\ heap'[handles[g].buffer] = heap[handles[g].buffer]]_vars

\* a UniqueBuf was reallocated to another capacity and its region moved, next
\* to another UniqueBuf whose buffer holds a written value
C16_Witness ==
    /\ lastOp.op = "reallocate"
    /\ fault = "none"
    /\ Last.kind = "unique"
    /\ lastOp.old > 0
    /\ lastOp.cap > 0
    /\ calls[1].ret # calls[1].ptr
    /\ \E g \in Handles \ {lastOp.h} :
          /\ handles[g].kind = "unique"
          /\ handles[g].cap = MaxCap
          /\ handles[g].wrote[MaxCap] # Uninit
          /\ ReadAt(heap, esize, handles[g].buffer, MaxCap - 1) = handles[g].wrote[MaxCap]

====
